---- MODULE Spec2Model ----
(***************************************************************************)
(* The system-call dispatcher and the file-descriptor table of             *)
(* kern/arch/mips/syscall/syscall.c, as a state machine.                   *)
(*                                                                         *)
(* Shared state: the chain of struct fdnode starting at first_fdnode, the  *)
(* lazily created fdnode_lock, the kernel heap the nodes live in, and the  *)
(* set of open file objects (vnodes).  Each thread is either in user mode  *)
(* or at one statement of syscall(), sys_open(), sys_close(),              *)
(* fd_allocate() or fd_deallocate().  Statements that only touch a         *)
(* thread's own locals are merged into the neighbouring step; every read   *)
(* or write of shared data is a step of its own.                           *)
(***************************************************************************)
EXTENDS Integers, Sequences, FiniteSets

\* ---------------------------------------------------------------- bounds
\* The source has FD_MAX = 127 (syscall.c:49); the model keeps the handle
\* range [FD_MIN, FD_MAX] small.
FD_MAX == 5
\* Number of kernel threads that issue system calls.
NThreads == 2
\* Distinct file objects handed to fd_allocate() when it is driven directly.
NumFiles == 2
\* Longest path / user buffer length tried by sys___getcwd().
MaxLen == 2
\* System calls a run of the concurrent specification may issue.
MaxCalls == 4

\* ------------------------------------------------------------- constants
FD_MIN == 3
NULL == 0

\* kern/errno.h
ENOSYS == 1
ENOMEM == 3
EFAULT == 6
EINVAL == 8
ENOENT == 19
ENFILE == 29
EBADF == 30

NumFds == FD_MAX - FD_MIN + 1
FdRange == FD_MIN..FD_MAX
Threads == 1..NThreads
\* Every live entry and every thread's private node fits in the heap;
\* kmalloc() may still fail at any time.
Nodes == 1..(NumFds + NThreads)
Locks == 1..NThreads
\* Every vfs_open() yields a file object of its own.
Vnodes == 1..MaxCalls
Files == 1..NumFiles
\* File descriptors a caller may pass: below, inside and above the range.
FdArgs == (FD_MIN - 1)..(FD_MAX + 1)
\* User-mode program counters at which a syscall instruction may trap.
EpcValues == {4194304, 2147483640}

\* kern/syscall.h; SYS_read stands for the call numbers syscall() does not handle.
SYS_open == 45
SYS_read == 50
SYS_close == 49
SYS___getcwd == 76
SYS___time == 113
SYS_reboot == 119
CallNos == {SYS_reboot, SYS___time, SYS___getcwd, SYS_open, SYS_close, SYS_read}

VARIABLES
    first_fdnode,   \* head of the chain, or NULL
    fdnode_lock,    \* the table lock, or NULL before its creation
    heap,           \* heap[n] = [fd, v, next]: the fields of struct fdnode n
    allocated,      \* nodes kmalloc'ed and not yet kfree'd
    lock_holder,    \* lock_holder[l]: the thread holding lock l, or NULL
    nlocks,         \* number of successful lock_create() calls so far
    open_vnodes,    \* file objects opened by vfs_open() and not yet closed
    th,             \* th[t]: thread t's position and locals
    nopened,        \* file objects vfs_open() has produced so far
    double_close,   \* vfs_close() was called on a file object that is not open
    pre,            \* the chain as <<fd, v>> pairs when a direct table call began
    panic,          \* "none", or why the kernel has halted (panic or failed KASSERT)
    given,          \* given[h]: the file object the table was given for live handle h
    ncalls          \* system calls issued so far

vars == <<first_fdnode, fdnode_lock, heap, allocated, lock_holder, nlocks,
          open_vnodes, nopened, double_close, th, pre, panic, given, ncalls>>

vfs == <<open_vnodes, nopened, double_close>>
shared == <<first_fdnode, fdnode_lock, heap, allocated, lock_holder, nlocks, vfs>>

\* ----------------------------------------------------------- the chain
RECURSIVE Walk(_, _, _)
\* The nodes visited by `for (fdn = first; fdn != NULL; fdn = fdn->next)',
\* cut at the first node visited twice.
Walk(n, h, seen) ==
    IF n = NULL \/ n \in seen THEN <<>>
    ELSE <<n>> \o Walk(h[n].next, h, seen \cup {n})

ChainNodes == Walk(first_fdnode, heap, {})

RECURSIVE EndsInCycle(_, _, _)
EndsInCycle(n, h, seen) ==
    IF n = NULL THEN FALSE
    ELSE IF n \in seen THEN TRUE
    ELSE EndsInCycle(h[n].next, h, seen \cup {n})

ChainCyclic == EndsInCycle(first_fdnode, heap, {})

\* The chain as the sequence of its entries' <<fd, v>>.
Chain == [i \in 1..Len(ChainNodes) |-> <<heap[ChainNodes[i]].fd, heap[ChainNodes[i]].v>>]

Range(s) == {s[i] : i \in 1..Len(s)}
ChainFds == {heap[n].fd : n \in Range(ChainNodes)}
PreFds == {e[1] : e \in Range(pre)}

SetMin(S) == CHOOSE x \in S : \A y \in S : x <= y

\* ------------------------------------------------------------- threads
NoRet == [op |-> "none", err |-> 0, val |-> 0, wrote |-> FALSE]

ThreadInit ==
    [pc |-> "user", mode |-> "none", op |-> "none", callno |-> 0,
     tf |-> [v0 |-> 0, a0 |-> 0, a1 |-> 0, a3 |-> 0, epc |-> 4194304], epc0 |-> 4194304,
     v |-> NULL, fd |-> 0, result |-> 0,
     new_first_fdnode |-> NULL, available_fd |-> 0,
     fdnode_removed |-> NULL, vnode_removed |-> NULL, fdn |-> NULL, fd_found |-> FALSE,
     arg |-> 0, opened |-> NULL, closed |-> NULL, nclose |-> 0, linked |-> FALSE, touched |-> FALSE,
     lk |-> NULL, pathlen |-> 0, kernbuflen |-> 0, copied |-> -1,
     ret |-> NoRet]

\* A thread back in user mode: its kernel stack frame is gone.
Reset(r) == [ThreadInit EXCEPT !.tf = r.tf, !.epc0 = r.epc0, !.ret = r.ret,
                               !.arg = r.arg, !.opened = r.opened, !.closed = r.closed, !.nclose = r.nclose,
                               !.pathlen = r.pathlen, !.kernbuflen = r.kernbuflen, !.copied = r.copied,
                               !.linked = r.linked, !.touched = r.touched]

lock_do_i_hold(t, l) == l # NULL /\ lock_holder[l] = t

Init ==
    /\ first_fdnode = NULL
    /\ fdnode_lock = NULL
    /\ heap = [n \in Nodes |-> [fd |-> 0, v |-> NULL, next |-> NULL]]
    /\ allocated = {}
    /\ lock_holder = [l \in Locks |-> NULL]
    /\ nlocks = 0
    /\ open_vnodes = {}
    /\ nopened = 0
    /\ double_close = FALSE
    /\ th = [t \in Threads |-> ThreadInit]
    /\ pre = <<>>
    /\ panic = "none"
    /\ given = [h \in FdRange |-> NULL]
    /\ ncalls = 0

\* ------------------------------------------------- leaving the kernel
\* Mutant of Writeback: the error path returns before `tf->tf_epc += 4'.
Writeback_NoAdvanceOnError(tf, err, retval) ==
    [tf EXCEPT !.v0 = IF err # 0 THEN err ELSE retval,
               !.a3 = IF err # 0 THEN 1 ELSE 0,
               !.epc = IF err # 0 THEN tf.epc ELSE tf.epc + 4]

\* syscall(), lines 294-314: the handler's outcome written to the trap frame.
\* tf_epc is a 32-bit user address below 0x80000000 (see EpcValues), so the
\* addition never wraps.
Writeback(tf, err, retval) ==
    [tf EXCEPT !.v0 = IF err # 0 THEN err ELSE retval,
               !.a3 = IF err # 0 THEN 1 ELSE 0,
               !.epc = tf.epc + 4]

\* syscall(), lines 266-291: the handler a call number is routed to.
HandlerName(callno) ==
    CASE callno = SYS_reboot -> "sys_reboot"
      [] callno = SYS___time -> "sys___time"
      [] callno = SYS___getcwd -> "sys___getcwd"
      [] callno = SYS_open -> "sys_open"
      [] callno = SYS_close -> "sys_close"
      [] OTHER -> "unknown"

\* The handler returned err (and set retval, 0 if it set none): syscall()
\* writes the trap frame and the thread is back in user mode.
SyscallReturn(r, err, retval) ==
    [Reset(r) EXCEPT !.tf = Writeback(r.tf, err, retval),
                     !.ret = [op |-> HandlerName(r.callno), err |-> err, val |-> retval, wrote |-> err = 0]]

\* Mutant of AllocReturn: sys_open() returns the error of fd_allocate()
\* without closing the file it opened.
AllocReturn_Leak(r, err, fd) ==
    IF r.mode = "table"
    THEN [Reset(r) EXCEPT !.ret = [op |-> "fd_allocate", err |-> err, val |-> fd, wrote |-> err = 0]]
    ELSE IF err # 0
    THEN SyscallReturn(r, err, 0)
    ELSE IF fd < FD_MIN \/ fd > FD_MAX
    THEN [r EXCEPT !.pc = "assert_failed"]
    ELSE SyscallReturn(r, 0, fd)

\* fd_allocate() returns err, with *fd = fd written when err = 0.  Called
\* directly, or from sys_open() (lines 422-433), which closes the file on
\* an error and asserts FD_MIN <= fd <= FD_MAX otherwise.
AllocReturn(r, err, fd) ==
    IF r.mode = "table"
    THEN [Reset(r) EXCEPT !.ret = [op |-> "fd_allocate", err |-> err, val |-> fd, wrote |-> err = 0]]
    ELSE IF err # 0
    THEN [r EXCEPT !.pc = "open_fail", !.result = err, !.new_first_fdnode = NULL]
    ELSE IF fd < FD_MIN \/ fd > FD_MAX
    THEN [r EXCEPT !.pc = "assert_failed"]
    ELSE SyscallReturn(r, 0, fd)

\* fd_deallocate() returns err, with *v = v written when err = 0.  Called
\* from sys_close() (lines 451-454) or directly.
DeallocReturn(r, err, v) ==
    IF r.mode = "table"
    THEN [Reset(r) EXCEPT !.ret = [op |-> "fd_deallocate", err |-> err, val |-> v, wrote |-> err = 0]]
    ELSE IF err # 0
    THEN SyscallReturn(r, err, 0)
    ELSE [r EXCEPT !.pc = "close_vfs", !.v = v, !.fdnode_removed = NULL,
                   !.vnode_removed = NULL, !.fdn = NULL, !.fd_found = FALSE]

\* ------------------------------------------ fdnode_ensure_lock_not_null
\* Where fd_allocate() / fd_deallocate() continue once the lock exists.
\* fd_deallocate() checks the range of fd right after (lines 158-160).
AfterEnsure(r) ==
    IF r.op = "alloc" THEN [r EXCEPT !.pc = "alloc_kmalloc"]
    ELSE IF r.fd < FD_MIN \/ r.fd > FD_MAX THEN DeallocReturn(r, EBADF, NULL)
    ELSE [r EXCEPT !.pc = "dealloc_lockarg"]

\* Line 74: if (fdnode_lock != NULL) return;
EnsureLockCheck(t) ==
    LET r == [th[t] EXCEPT !.touched = TRUE] IN
    /\ panic = "none"
    /\ th[t].pc = "ensure_check"
    /\ th' = [th EXCEPT ![t] = IF fdnode_lock # NULL THEN AfterEnsure(r)
                                ELSE [r EXCEPT !.pc = "ensure_create"]]
    /\ UNCHANGED <<shared, pre, given, panic, ncalls>>

\* Lines 82-87: fdnode_lock = lock_create(...); panic if it is NULL.
EnsureLockCreate(t) ==
    /\ panic = "none"
    /\ th[t].pc = "ensure_create"
    /\ \E ok \in BOOLEAN :
         IF ok
         THEN /\ nlocks' = nlocks + 1
              /\ fdnode_lock' = nlocks + 1
              /\ th' = [th EXCEPT ![t] = AfterEnsure(th[t])]
              /\ UNCHANGED panic
         ELSE /\ panic' = "lock_create"
              /\ UNCHANGED <<nlocks, fdnode_lock, th>>
    /\ UNCHANGED <<first_fdnode, heap, allocated, lock_holder, vfs, pre, given, ncalls>>

\* ------------------------------------------------------------ the lock
\* The argument of lock_acquire(fdnode_lock): the pointer is read once,
\* before the call; the call then waits for the lock that was read.
LockArg(t, nextpc) ==
    /\ th' = [th EXCEPT ![t].lk = fdnode_lock, ![t].pc = nextpc]
    /\ UNCHANGED <<shared, pre, given, panic, ncalls>>

\* lock_acquire(lk): blocks while another thread holds lock lk.
LockAcquire(t, nextpc) ==
    LET lk == th[t].lk IN
    /\ lk # NULL
    /\ lock_holder[lk] = NULL
    /\ lock_holder' = [lock_holder EXCEPT ![lk] = t]
    /\ th' = [th EXCEPT ![t].pc = nextpc, ![t].lk = NULL]
    /\ UNCHANGED <<first_fdnode, fdnode_lock, heap, allocated, nlocks, vfs,
                   pre, given, panic, ncalls>>

\* The outcomes of lock_release(l) called by thread t: "released" for the
\* holder; for a thread that does not hold l, either the lock's own
\* assertion halts the kernel or the lock is released unchecked.
ReleaseOutcomes(t, l) ==
    IF lock_do_i_hold(t, l) THEN {"released"} ELSE {"panic", "released"}

\* lock_release(fdnode_lock) by thread t, which then continues as `after'.
LockRelease(t, after) ==
    \E outcome \in ReleaseOutcomes(t, fdnode_lock) :
        IF outcome = "panic"
        THEN /\ panic' = "lock_release"
             /\ UNCHANGED <<lock_holder, th>>
        ELSE /\ lock_holder' = [lock_holder EXCEPT ![fdnode_lock] = NULL]
             /\ th' = [th EXCEPT ![t] = after]
             /\ panic' = IF after.pc = "assert_failed" THEN "sys_open" ELSE panic

\* Reading the fields of a node that was already kfree'd: the stale
\* contents, or a fault that halts the kernel.
MayFault(nodes) == IF nodes \subseteq allocated THEN {FALSE} ELSE {FALSE, TRUE}

\* ---------------------------------------------------------- fd_allocate
\* Lines 92-101.
fd_is_being_used(fd_in_question) ==
    \E n \in Range(ChainNodes) : heap[n].fd = fd_in_question

\* Mutant of AvailableFds: the loop runs to `i <= FD_MAX + 1'.
AvailableFds_OffByOne == {i \in FD_MIN..(FD_MAX + 1) : ~fd_is_being_used(i)}

\* Mutant of AvailableFds: the loop stops at `i < FD_MAX'.
AvailableFds_SkipLast == {i \in FD_MIN..(FD_MAX - 1) : ~fd_is_being_used(i)}

\* Lines 126-132: the handles the scan finds unused.
AvailableFds == {i \in FdRange : ~fd_is_being_used(i)}

\* Mutant of FirstAvailable: the loop has no `break' and keeps the last
\* unused handle.
FirstAvailable_NoBreak == CHOOSE x \in AvailableFds : \A y \in AvailableFds : y <= x

\* Lines 126-132: the scan stops at the first unused handle.
FirstAvailable == SetMin(AvailableFds)

\* Lines 113-123: kmalloc the entry and clear it.
AllocKmalloc(t) ==
    LET r == th[t]
        free == Nodes \ allocated IN
    /\ panic = "none"
    /\ r.pc = "alloc_kmalloc"
    /\ \E ok \in BOOLEAN :
         IF ok /\ free # {}
         THEN LET n == SetMin(free) IN
              /\ allocated' = allocated \cup {n}
              /\ heap' = [heap EXCEPT ![n] = [fd |-> 0, v |-> NULL, next |-> NULL]]
              /\ th' = [th EXCEPT ![t] = [r EXCEPT !.pc = "alloc_lockarg",
                                                   !.new_first_fdnode = n,
                                                   !.available_fd = FD_MIN]]
         ELSE /\ th' = [th EXCEPT ![t] = AllocReturn(r, ENOMEM, 0)]
              /\ UNCHANGED <<allocated, heap>>
    /\ UNCHANGED <<first_fdnode, fdnode_lock, lock_holder, nlocks, vfs,
                   pre, given, panic, ncalls>>

\* Line 125: the argument of the call.
AllocLockArg(t) ==
    /\ panic = "none"
    /\ th[t].pc = "alloc_lockarg"
    /\ LockArg(t, "alloc_acquire")

\* Line 125: the call.
AllocAcquire(t) ==
    /\ panic = "none"
    /\ th[t].pc = "alloc_acquire"
    /\ LockAcquire(t, "alloc_scan")

\* Lines 126-141: scan for the first unused handle (fd_is_being_used
\* asserts that the caller holds fdnode_lock), then fill in the new node.
\* On a chain that runs into a cycle the search for an unused handle
\* never ends.
AllocScan(t) ==
    LET r == th[t]
        n == r.new_first_fdnode IN
    /\ panic = "none"
    /\ r.pc = "alloc_scan"
    /\ \E fault \in MayFault(Range(ChainNodes)) :
         IF ~lock_do_i_hold(t, fdnode_lock)
         THEN /\ panic' = "lock_do_i_hold"
              /\ UNCHANGED <<th, heap>>
         ELSE IF fault
         THEN /\ panic' = "fault"
              /\ UNCHANGED <<th, heap>>
         ELSE /\ UNCHANGED panic
              /\ IF AvailableFds = {}
                 THEN /\ th' = [th EXCEPT ![t].pc = "full_release"]
                      /\ UNCHANGED heap
                 ELSE IF ChainCyclic
                 THEN /\ th' = [th EXCEPT ![t].pc = "hung"]
                      /\ UNCHANGED heap
                 ELSE /\ th' = [th EXCEPT ![t] = [r EXCEPT !.pc = "alloc_next",
                                                       !.available_fd = FirstAvailable]]
                      /\ heap' = [heap EXCEPT ![n].fd = FirstAvailable, ![n].v = r.v]
    /\ UNCHANGED <<first_fdnode, fdnode_lock, allocated, lock_holder, nlocks,
                   vfs, pre, given, ncalls>>

\* Mutant of AllocSetNext: `new_first_fdnode->next = NULL', which cuts the
\* older entries off the chain.
AllocSetNext_Null(t) ==
    LET r == th[t] IN
    /\ panic = "none"
    /\ r.pc = "alloc_next"
    /\ heap' = [heap EXCEPT ![r.new_first_fdnode].next = NULL]
    /\ th' = [th EXCEPT ![t].pc = "alloc_first"]
    /\ UNCHANGED <<first_fdnode, fdnode_lock, allocated, lock_holder, nlocks,
                   vfs, pre, given, panic, ncalls>>

\* Line 142: new_first_fdnode->next = first_fdnode;
AllocSetNext(t) ==
    LET r == th[t] IN
    /\ panic = "none"
    /\ r.pc = "alloc_next"
    /\ heap' = [heap EXCEPT ![r.new_first_fdnode].next = first_fdnode]
    /\ th' = [th EXCEPT ![t].pc = "alloc_first"]
    /\ UNCHANGED <<first_fdnode, fdnode_lock, allocated, lock_holder, nlocks,
                   vfs, pre, given, panic, ncalls>>

\* Line 144: first_fdnode = new_first_fdnode;
AllocSetFirst(t) ==
    LET r == th[t] IN
    /\ panic = "none"
    /\ r.pc = "alloc_first"
    /\ first_fdnode' = r.new_first_fdnode
    /\ th' = [th EXCEPT ![t] = [r EXCEPT !.pc = "alloc_release", !.linked = TRUE]]
    /\ UNCHANGED <<fdnode_lock, heap, allocated, lock_holder, nlocks,
                   vfs, pre, given, panic, ncalls>>

\* Lines 145-148: release the lock, *fd = available_fd, return 0; in
\* sys_open() the range assertions, *retval = fd and return 0 follow.
\* From now on the table answers for the file object under that handle.
AllocRelease(t) ==
    LET r == th[t] IN
    /\ panic = "none"
    /\ r.pc = "alloc_release"
    /\ LockRelease(t, AllocReturn(r, 0, r.available_fd))
    /\ given' = IF panic' = "none" /\ r.available_fd \in FdRange
                THEN [given EXCEPT ![r.available_fd] = r.v] ELSE given
    /\ UNCHANGED <<first_fdnode, fdnode_lock, heap, allocated, nlocks, vfs,
                   pre, ncalls>>

\* Line 135: no handle is free; release the lock.
AllocFullRelease(t) ==
    /\ panic = "none"
    /\ th[t].pc = "full_release"
    /\ LockRelease(t, [th[t] EXCEPT !.pc = "full_kfree"])
    /\ UNCHANGED <<first_fdnode, fdnode_lock, heap, allocated, nlocks, vfs,
                   pre, given, ncalls>>

\* Mutant of AllocFullKfree: `return ENFILE' without the kfree().
AllocFullKfree_Leak(t) ==
    LET r == th[t] IN
    /\ panic = "none"
    /\ r.pc = "full_kfree"
    /\ th' = [th EXCEPT ![t] = AllocReturn(r, ENFILE, 0)]
    /\ UNCHANGED <<first_fdnode, fdnode_lock, heap, allocated, lock_holder, nlocks, vfs,
                   pre, given, panic, ncalls>>

\* Lines 136-137: kfree(new_first_fdnode); return ENFILE;
AllocFullKfree(t) ==
    LET r == th[t] IN
    /\ panic = "none"
    /\ r.pc = "full_kfree"
    /\ allocated' = allocated \ {r.new_first_fdnode}
    /\ th' = [th EXCEPT ![t] = AllocReturn(r, ENFILE, 0)]
    /\ UNCHANGED <<first_fdnode, fdnode_lock, heap, lock_holder, nlocks, vfs,
                   pre, given, panic, ncalls>>

\* -------------------------------------------------------- fd_deallocate
\* Line 166: the argument of the call.
DeallocLockArg(t) ==
    /\ panic = "none"
    /\ th[t].pc = "dealloc_lockarg"
    /\ LockArg(t, "dealloc_acquire")

\* Line 166: the call.
DeallocAcquire(t) ==
    /\ panic = "none"
    /\ th[t].pc = "dealloc_acquire"
    /\ LockAcquire(t, "dealloc_find")

\* Lines 177-178: the positions i of the chain whose successor carries fd
\* (the loop looks at fdn->next, never at the head itself).
PositionsBefore(fd) ==
    {i \in 1..(Len(ChainNodes) - 1) : heap[ChainNodes[i + 1]].fd = fd}

\* Mutant of FindEntry: `if (first_fdnode->fd = fd)', so a non-empty
\* chain always loses its head.
FindEntry_HeadAssign(r) ==
    IF first_fdnode = NULL
    THEN [r EXCEPT !.pc = "dealloc_release"]
    ELSE [r EXCEPT !.pc = "dealloc_unlink",
                   !.fdnode_removed = first_fdnode,
                   !.vnode_removed = heap[first_fdnode].v,
                   !.fdn = NULL]

\* Mutant of FindEntry: inside the chain `vnode_removed = fdn->v', the
\* file of the entry before the one removed.
FindEntry_PrevVnode(r) ==
    IF first_fdnode = NULL
    THEN [r EXCEPT !.pc = "dealloc_release"]
    ELSE IF heap[first_fdnode].fd = r.fd
    THEN [r EXCEPT !.pc = "dealloc_unlink",
                   !.fdnode_removed = first_fdnode,
                   !.vnode_removed = heap[first_fdnode].v,
                   !.fdn = NULL]
    ELSE IF PositionsBefore(r.fd) # {}
    THEN LET i == SetMin(PositionsBefore(r.fd)) IN
         [r EXCEPT !.pc = "dealloc_unlink",
                   !.fdnode_removed = ChainNodes[i + 1],
                   !.vnode_removed = heap[ChainNodes[i]].v,
                   !.fdn = ChainNodes[i]]
    ELSE IF ChainCyclic
    THEN [r EXCEPT !.pc = "hung"]
    ELSE [r EXCEPT !.pc = "dealloc_release"]

\* Lines 167-180: what the search for fd finds: "none" on an empty chain or
\* when the loop runs off the end, the head, or the first entry behind
\* another that carries fd.  On a chain that runs into a cycle a search
\* that finds nothing never ends.
FindEntry(r) ==
    IF first_fdnode = NULL
    THEN [r EXCEPT !.pc = "dealloc_release"]
    ELSE IF heap[first_fdnode].fd = r.fd
    THEN [r EXCEPT !.pc = "dealloc_unlink",
                   !.fdnode_removed = first_fdnode,
                   !.vnode_removed = heap[first_fdnode].v,
                   !.fdn = NULL]
    ELSE IF PositionsBefore(r.fd) # {}
    THEN LET i == SetMin(PositionsBefore(r.fd)) IN
         [r EXCEPT !.pc = "dealloc_unlink",
                   !.fdnode_removed = ChainNodes[i + 1],
                   !.vnode_removed = heap[ChainNodes[i + 1]].v,
                   !.fdn = ChainNodes[i]]
    ELSE IF ChainCyclic
    THEN [r EXCEPT !.pc = "hung"]
    ELSE [r EXCEPT !.pc = "dealloc_release"]

\* Lines 167-180: find the entry that carries fd.
DeallocFind(t) ==
    /\ panic = "none"
    /\ th[t].pc = "dealloc_find"
    /\ \E fault \in MayFault(Range(ChainNodes)) :
         IF fault
         THEN /\ panic' = "fault"
              /\ UNCHANGED th
         ELSE /\ UNCHANGED panic
              /\ th' = [th EXCEPT ![t] = FindEntry(th[t])]
    /\ UNCHANGED <<shared, pre, given, ncalls>>

\* Lines 173-174 (head) and 181-182 (inside the chain): unlink the entry.
DeallocUnlink(t) ==
    LET r == th[t] IN
    /\ panic = "none"
    /\ r.pc = "dealloc_unlink"
    /\ \E fault \in MayFault({r.fdnode_removed} \cup ({r.fdn} \ {NULL})) :
         IF fault
         THEN /\ panic' = "fault"
              /\ UNCHANGED <<th, first_fdnode, heap>>
         ELSE /\ UNCHANGED panic
              /\ IF r.fdn = NULL
                 THEN /\ first_fdnode' = heap[r.fdnode_removed].next
                      /\ UNCHANGED heap
                 ELSE /\ heap' = [heap EXCEPT ![r.fdn].next = heap[r.fdnode_removed].next]
                      /\ UNCHANGED first_fdnode
              /\ th' = [th EXCEPT ![t] = [r EXCEPT !.pc = "dealloc_release",
                                                   !.fd_found = TRUE]]
    /\ UNCHANGED <<fdnode_lock, allocated, lock_holder, nlocks, vfs, pre, given, ncalls>>

\* Lines 187-191: release the lock; return EBADF if nothing was found.
DeallocRelease(t) ==
    LET r == th[t] IN
    /\ panic = "none"
    /\ r.pc = "dealloc_release"
    /\ LockRelease(t, IF ~r.fd_found THEN DeallocReturn(r, EBADF, NULL)
                      ELSE [r EXCEPT !.pc = "dealloc_kfree"])
    /\ UNCHANGED <<first_fdnode, fdnode_lock, heap, allocated, nlocks, vfs,
                   pre, given, ncalls>>

\* Lines 193-197: kfree(fdnode_removed); *v = vnode_removed; return 0.
\* Freeing a node that is already free either goes unnoticed or halts the
\* kernel.  The table no longer answers for the handle.
DeallocKfree(t) ==
    LET r == th[t] IN
    /\ panic = "none"
    /\ r.pc = "dealloc_kfree"
    /\ \E fault \in MayFault({r.fdnode_removed}) :
         IF fault
         THEN /\ panic' = "fault"
              /\ UNCHANGED <<th, allocated, given>>
         ELSE /\ UNCHANGED panic
              /\ allocated' = allocated \ {r.fdnode_removed}
              /\ given' = [given EXCEPT ![r.fd] = NULL]
              /\ th' = [th EXCEPT ![t] = DeallocReturn(r, 0, r.vnode_removed)]
    /\ UNCHANGED <<first_fdnode, fdnode_lock, heap, lock_holder, nlocks, vfs,
                   pre, ncalls>>

\* ------------------------------------------- the table driven directly
\* A call frame of thread t for a new call: the history of the last call
\* is forgotten.
NewCall(r) == [ThreadInit EXCEPT !.tf = r.tf, !.epc0 = r.epc0]

\* fd_allocate(v, &fd) called with file object v.
CallFdAllocate(t) ==
    /\ panic = "none"
    /\ th[t].pc = "user"
    /\ \E f \in Files :
         th' = [th EXCEPT ![t] = [NewCall(th[t]) EXCEPT !.pc = "ensure_check",
                                     !.mode = "table", !.op = "alloc", !.v = f, !.arg = f]]
    /\ pre' = Chain
    /\ UNCHANGED <<shared, panic, given, ncalls>>

\* fd_deallocate(&v, fd) called with any fd.
CallFdDeallocate(t) ==
    /\ panic = "none"
    /\ th[t].pc = "user"
    /\ \E h \in FdArgs :
         th' = [th EXCEPT ![t] = [NewCall(th[t]) EXCEPT !.pc = "ensure_check",
                                     !.mode = "table", !.op = "dealloc", !.fd = h, !.arg = h]]
    /\ pre' = Chain
    /\ UNCHANGED <<shared, panic, given, ncalls>>

\* The steps of fd_allocate() and fd_deallocate().
TableStep(t) ==
    \/ EnsureLockCheck(t)
    \/ EnsureLockCreate(t)
    \/ AllocKmalloc(t)
    \/ AllocLockArg(t)
    \/ AllocAcquire(t)
    \/ AllocScan(t)
    \/ AllocSetNext(t)
    \/ AllocSetFirst(t)
    \/ AllocRelease(t)
    \/ AllocFullRelease(t)
    \/ AllocFullKfree(t)
    \/ DeallocLockArg(t)
    \/ DeallocAcquire(t)
    \/ DeallocFind(t)
    \/ DeallocUnlink(t)
    \/ DeallocRelease(t)
    \/ DeallocKfree(t)

\* One caller drives the table: every call returns before the next begins.
TableNext ==
    \/ CallFdAllocate(1)
    \/ CallFdDeallocate(1)
    \/ TableStep(1)

TableSpec == Init /\ [][TableNext]_vars

\* ------------------------------------------------------------ syscall()
\* Lines 243-264: thread t traps into the kernel with a call number of
\* callnos in tf_v0, the arguments in tf_a0 and tf_a1 and the address of
\* the syscall instruction, one of epcs, in tf_epc; retval = 0.
Trap(t, callnos, epcs) ==
    /\ panic = "none"
    /\ th[t].pc = "user"
    /\ ncalls < MaxCalls
    /\ ncalls' = ncalls + 1
    /\ \E callno \in callnos, epc \in epcs, a0 \in FdArgs, a1 \in 0..MaxLen :
         /\ callno # SYS_close => a0 = FD_MIN
         /\ callno # SYS___getcwd => a1 = 0
         /\ th' = [th EXCEPT ![t] = [ThreadInit EXCEPT
                      !.pc = "dispatch", !.mode = "syscall", !.callno = callno,
                      !.tf = [v0 |-> callno, a0 |-> a0, a1 |-> a1, a3 |-> 0, epc |-> epc],
                      !.epc0 = epc]]
    /\ UNCHANGED <<shared, panic, given>>

\* A system call with any call number, from any of the trap addresses.
Syscall(t) ==
    /\ Trap(t, CallNos, EpcValues)
    /\ pre' = Chain

\* An open() or a close(): the two system calls that reach the table.
FileSyscall(t) ==
    /\ Trap(t, {SYS_open, SYS_close}, {SetMin(EpcValues)})
    /\ UNCHANGED pre

\* Lines 267-269: sys_reboot(tf->tf_a0), a handler of another file.
SysReboot(t) ==
    LET r == th[t] IN
    /\ panic = "none"
    /\ r.pc = "dispatch" /\ r.callno = SYS_reboot
    /\ \E err \in {0, EINVAL} : th' = [th EXCEPT ![t] = SyscallReturn(r, err, 0)]
    /\ UNCHANGED <<shared, pre, given, panic, ncalls>>

\* Lines 271-274: sys___time(...), a handler of another file.
SysTime(t) ==
    LET r == th[t] IN
    /\ panic = "none"
    /\ r.pc = "dispatch" /\ r.callno = SYS___time
    /\ \E err \in {0, EFAULT} : th' = [th EXCEPT ![t] = SyscallReturn(r, err, 0)]
    /\ UNCHANGED <<shared, pre, given, panic, ncalls>>

\* Mutant of SysUnknown: the default case leaves err = 0.
SysUnknown_NoError(t) ==
    LET r == th[t] IN
    /\ panic = "none"
    /\ r.pc = "dispatch"
    /\ r.callno \notin {SYS_reboot, SYS___time, SYS___getcwd, SYS_open, SYS_close}
    /\ th' = [th EXCEPT ![t] = SyscallReturn(r, 0, 0)]
    /\ UNCHANGED <<shared, pre, given, panic, ncalls>>

\* Lines 287-290: an unknown call number.
SysUnknown(t) ==
    LET r == th[t] IN
    /\ panic = "none"
    /\ r.pc = "dispatch"
    /\ r.callno \notin {SYS_reboot, SYS___time, SYS___getcwd, SYS_open, SYS_close}
    /\ th' = [th EXCEPT ![t] = SyscallReturn(r, ENOSYS, 0)]
    /\ UNCHANGED <<shared, pre, given, panic, ncalls>>

\* The bytes of a path name: '/' and 'a'; none of them is the terminator.
PathChars == {47, 97}

\* The paths vfs_getcwd() may produce, of up to MaxLen bytes.
Paths == UNION {[1..n -> PathChars] : n \in 0..MaxLen}

RECURSIVE strlen(_)
\* strlen(): the number of bytes before the first 0 byte.
strlen(buf) == IF buf = <<>> \/ Head(buf) = 0 THEN 0 ELSE 1 + strlen(Tail(buf))

\* Mutant of NumBytesCopied: the comparison is turned round.
NumBytesCopied_Larger(kernbuflen, userbuflen) ==
    IF kernbuflen > userbuflen THEN kernbuflen ELSE userbuflen

\* Lines 368-372: the number of bytes sys___getcwd() copies out.
NumBytesCopied(kernbuflen, userbuflen) ==
    IF kernbuflen < userbuflen THEN kernbuflen ELSE userbuflen

\* Lines 341-382: sys___getcwd(userbuf, userbuflen, &retval).  vfs_getcwd()
\* fails or stores a path at the start of kernbuf; line 363 puts a 0 byte
\* behind the bytes stored; copyout() of numbytescopied bytes fails or
\* succeeds.
SysGetcwd(t) ==
    LET r == th[t]
        userbuflen == r.tf.a1 IN
    /\ panic = "none"
    /\ r.pc = "dispatch" /\ r.callno = SYS___getcwd
    /\ \E result \in {0, ENOENT}, path \in Paths, result2 \in {0, EFAULT} :
         LET kernbuf == path \o <<0>>
             kernbuflen == strlen(kernbuf)
             numbytescopied == NumBytesCopied(kernbuflen, userbuflen)
             r2 == [r EXCEPT !.pathlen = Len(path), !.kernbuflen = kernbuflen,
                             !.copied = numbytescopied] IN
         th' = [th EXCEPT ![t] =
                  IF result # 0 THEN SyscallReturn(r, result, 0)
                  ELSE IF result2 # 0 THEN SyscallReturn(r2, result2, 0)
                  ELSE SyscallReturn(r2, 0, numbytescopied)]
    /\ UNCHANGED <<shared, pre, given, panic, ncalls>>

\* Lines 391-413: sys_open() copies the file name in with copyinstr().
SysOpen(t) ==
    LET r == th[t] IN
    /\ panic = "none"
    /\ r.pc = "dispatch" /\ r.callno = SYS_open
    /\ \E result \in {0, EFAULT} :
         th' = [th EXCEPT ![t] = IF result # 0 THEN SyscallReturn(r, result, 0)
                                  ELSE [r EXCEPT !.pc = "vfs_open"]]
    /\ UNCHANGED <<shared, pre, given, panic, ncalls>>

\* Lines 416-422: vfs_open() fails, or yields a file object v and
\* sys_open() calls fd_allocate(v, &fd).
OpenVfsOpen(t) ==
    LET r == th[t]
        v == nopened + 1 IN
    /\ panic = "none"
    /\ r.pc = "vfs_open"
    /\ \E result \in {0, ENOENT} :
         IF result # 0
         THEN /\ th' = [th EXCEPT ![t] = SyscallReturn(r, result, 0)]
              /\ UNCHANGED <<open_vnodes, nopened>>
         ELSE /\ open_vnodes' = open_vnodes \cup {v}
              /\ nopened' = v
              /\ th' = [th EXCEPT ![t] = [r EXCEPT !.pc = "ensure_check", !.op = "alloc",
                                                   !.v = v, !.opened = v]]
    /\ UNCHANGED <<first_fdnode, fdnode_lock, heap, allocated, lock_holder, nlocks,
                   double_close, pre, given, panic, ncalls>>

\* vfs_close(v): the file object is released.
VfsClose(v) ==
    /\ open_vnodes' = open_vnodes \ {v}
    /\ double_close' = (double_close \/ v \notin open_vnodes)
    /\ UNCHANGED nopened

\* Lines 423-426: fd_allocate() failed; vfs_close(v); return result.
OpenFail(t) ==
    LET r == th[t] IN
    /\ panic = "none"
    /\ r.pc = "open_fail"
    /\ VfsClose(r.v)
    /\ th' = [th EXCEPT ![t] = SyscallReturn([r EXCEPT !.nclose = @ + 1, !.closed = r.v],
                                             r.result, 0)]
    /\ UNCHANGED <<first_fdnode, fdnode_lock, heap, allocated, lock_holder, nlocks,
                   pre, given, panic, ncalls>>

\* Mutant of SysClose: no range check before fd_deallocate().
SysClose_NoRangeCheck(t) ==
    LET r == th[t]
        fd == r.tf.a0 IN
    /\ panic = "none"
    /\ r.pc = "dispatch" /\ r.callno = SYS_close
    /\ th' = [th EXCEPT ![t] = [r EXCEPT !.pc = "ensure_check", !.op = "dealloc", !.fd = fd]]
    /\ UNCHANGED <<shared, pre, given, panic, ncalls>>

\* Lines 444-451: sys_close(fd) rejects an fd outside [FD_MIN, FD_MAX],
\* otherwise calls fd_deallocate(&v, fd).
SysClose(t) ==
    LET r == th[t]
        fd == r.tf.a0 IN
    /\ panic = "none"
    /\ r.pc = "dispatch" /\ r.callno = SYS_close
    /\ th' = [th EXCEPT ![t] = IF fd < FD_MIN \/ fd > FD_MAX
                                THEN SyscallReturn(r, EBADF, 0)
                                ELSE [r EXCEPT !.pc = "ensure_check", !.op = "dealloc",
                                               !.fd = fd]]
    /\ UNCHANGED <<shared, pre, given, panic, ncalls>>

\* Lines 456-459: fd_deallocate() succeeded; vfs_close(v); return 0.
CloseVfsClose(t) ==
    LET r == th[t] IN
    /\ panic = "none"
    /\ r.pc = "close_vfs"
    /\ VfsClose(r.v)
    /\ th' = [th EXCEPT ![t] = SyscallReturn([r EXCEPT !.nclose = @ + 1, !.closed = r.v],
                                             0, 0)]
    /\ UNCHANGED <<first_fdnode, fdnode_lock, heap, allocated, lock_holder, nlocks,
                   pre, given, panic, ncalls>>

\* The steps of sys_open() and sys_close() below the dispatcher.
FileStep(t) ==
    \/ SysOpen(t)
    \/ OpenVfsOpen(t)
    \/ OpenFail(t)
    \/ SysClose(t)
    \/ CloseVfsClose(t)

\* The handlers that never reach the table.
OtherStep(t) ==
    \/ SysReboot(t)
    \/ SysTime(t)
    \/ SysGetcwd(t)
    \/ SysUnknown(t)

\* One thread issues system calls of every kind, one after the other.
SyscallNext ==
    \/ Syscall(1)
    \/ OtherStep(1)
    \/ FileStep(1)
    \/ TableStep(1)

SyscallSpec == Init /\ [][SyscallNext]_vars

\* Every thread opens and closes files; the threads' steps interleave.  The
\* other handlers share no state with the table and are left to SyscallSpec.
Next == \E t \in Threads : FileSyscall(t) \/ FileStep(t) \/ TableStep(t)

Spec == Init /\ [][Next]_vars

\* ================================================================ claims
\* Thread t is back in user mode from a call of op.
Returned(t, op) == th[t].pc = "user" /\ th[t].ret.op = op

\* C1: every handle a successful fd_allocate() returns lies in
\* [FD_MIN, FD_MAX] (the two assertions of sys_open) and is not the handle
\* of any entry that was in the chain when the call was made.
C1_HandleInRangeAndFresh ==
    \A t \in Threads :
        (Returned(t, "fd_allocate") /\ th[t].ret.err = 0) =>
            /\ th[t].ret.val >= FD_MIN
            /\ th[t].ret.val <= FD_MAX
            /\ th[t].ret.val \notin PreFds

\* A successful allocation into a table that already held two entries.
C1_Witness ==
    \E t \in Threads :
        /\ Returned(t, "fd_allocate") /\ th[t].ret.err = 0
        /\ Cardinality(PreFds) >= 2

\* C2: a successful fd_allocate() returns the smallest handle of
\* [FD_MIN, FD_MAX] that no entry of the chain carried.
C2_SmallestFree ==
    \A t \in Threads :
        (Returned(t, "fd_allocate") /\ th[t].ret.err = 0) =>
            th[t].ret.val = SetMin(FdRange \ PreFds)

\* A freed low handle is reused although a higher handle is free too and
\* a higher one is live.
C2_Witness ==
    \E t \in Threads :
        /\ Returned(t, "fd_allocate") /\ th[t].ret.err = 0
        /\ \E h \in PreFds : h > th[t].ret.val
        /\ \E h \in FdRange \ PreFds : h > th[t].ret.val

\* C3: when each of the NThreads threads has made exactly one system call,
\* an open() that came back successful (the first calls ever made on the
\* table, in any interleaving), the handles returned are pairwise distinct.
C3_DistinctHandles ==
    (ncalls = NThreads /\ \A t \in Threads : Returned(t, "sys_open") /\ th[t].ret.err = 0) =>
        \A t1, t2 \in Threads : t1 # t2 => th[t1].ret.val # th[t2].ret.val

\* C4: fd_deallocate(h) for a handle no entry carries returns EBADF, does
\* not write *v and leaves the chain (entries, files, order) as it was.
C4_BadHandleNoEffect ==
    \A t \in Threads :
        (Returned(t, "fd_deallocate") /\ th[t].arg \notin PreFds) =>
            /\ th[t].ret.err = EBADF
            /\ ~th[t].ret.wrote
            /\ Chain = pre

\* A handle of the range that no entry carries is looked for in a chain of
\* two or more entries.
C4_Witness ==
    \E t \in Threads :
        /\ Returned(t, "fd_deallocate") /\ th[t].arg \notin PreFds
        /\ th[t].arg \in FdRange
        /\ Len(pre) >= 2
        /\ th[t].ret.err = EBADF

\* Thread t's direct call of fd_deallocate() returns in this step.
DeallocReturns(t) ==
    /\ th[t].mode = "table" /\ th[t].op = "dealloc"
    /\ th[t].pc # "user" /\ th'[t].pc = "user"

\* C5: round trip.  While the file object f given with handle h has not
\* been taken back (given[h] = f), fd_deallocate(h) returns 0 and exactly
\* f; once it has, fd_deallocate(h) returns EBADF.
C5_RoundTrip ==
    [][\A t \in Threads :
         DeallocReturns(t) =>
            IF th[t].fd \in FdRange /\ given[th[t].fd] # NULL
            THEN /\ th'[t].ret.err = 0
                 /\ th'[t].ret.val = given[th[t].fd]
            ELSE th'[t].ret.err = EBADF]_vars

\* A file object comes back from an entry that is not the head: other
\* allocations followed its own.
C5_Witness ==
    \E t \in Threads :
        /\ Returned(t, "fd_deallocate") /\ th[t].ret.err = 0
        /\ Len(pre) >= 2
        /\ pre[1][1] # th[t].arg
        /\ th[t].ret.val = NumFiles
        /\ given[th[t].arg] = NULL

\* C6 as stated: on a full table the next fd_allocate() fails with ENFILE
\* and adds nothing; with exactly one handle free it succeeds and returns
\* that handle.
C6_Original ==
    \A t \in Threads :
        Returned(t, "fd_allocate") =>
            /\ PreFds = FdRange => (th[t].ret.err = ENFILE /\ Chain = pre)
            /\ \A h \in FdRange :
                 PreFds = FdRange \ {h} => (th[t].ret.err = 0 /\ th[t].ret.val = h)

\* C6 amended: on a full table the next fd_allocate() fails, with ENFILE
\* or (when kmalloc fails first) with ENOMEM, and adds nothing; ENFILE is
\* returned only on a full table; with exactly one handle free the call
\* either fails with ENOMEM and adds nothing or returns that handle and
\* the table is full again.
C6_Exhaustion ==
    \A t \in Threads :
        Returned(t, "fd_allocate") =>
            /\ PreFds = FdRange => (th[t].ret.err \in {ENFILE, ENOMEM} /\ Chain = pre)
            /\ th[t].ret.err = ENFILE => PreFds = FdRange
            /\ \A h \in FdRange :
                 PreFds = FdRange \ {h} =>
                    \/ th[t].ret.err = 0 /\ th[t].ret.val = h /\ ChainFds = FdRange
                    \/ th[t].ret.err = ENOMEM /\ Chain = pre

\* fd_allocate() has failed with ENFILE on a table of NumFds entries.
C6_Witness ==
    \E t \in Threads :
        /\ Returned(t, "fd_allocate") /\ th[t].ret.err = ENFILE
        /\ Len(pre) = NumFds
        /\ Chain = pre

\* C7: when sys_open() returns an error the chain is as it was and no
\* file object opened by the call is still open: vfs_close is not called
\* if copyinstr or vfs_open failed, and is called exactly once, on the
\* opened file, if fd_allocate failed (ENFILE or ENOMEM); on success
\* vfs_close is not called.
C7_OpenErrorPaths ==
    \A t \in Threads :
        Returned(t, "sys_open") =>
            IF th[t].ret.err # 0
            THEN /\ Chain = pre
                 /\ th[t].opened = NULL => th[t].nclose = 0
                 /\ th[t].opened # NULL =>
                      /\ th[t].nclose = 1
                      /\ th[t].closed = th[t].opened
                      /\ th[t].opened \notin open_vnodes
                      /\ th[t].ret.err \in {ENFILE, ENOMEM}
            ELSE /\ th[t].nclose = 0
                 /\ th[t].opened \in open_vnodes

\* sys_open() has opened a file, found the table full and returned ENFILE.
C7_Witness ==
    \E t \in Threads :
        /\ Returned(t, "sys_open") /\ th[t].ret.err = ENFILE
        /\ th[t].opened # NULL
        /\ Len(Chain) = NumFds

\* C8: sys_close(fd) with fd outside [FD_MIN, FD_MAX] returns EBADF in one
\* step that leaves the lock, the chain, the heap and the open files
\* alone.
C8_CloseOutOfRange ==
    [][\A t \in Threads :
         ( /\ th[t].pc = "dispatch" /\ th[t].callno = SYS_close
           /\ (th[t].tf.a0 < FD_MIN \/ th[t].tf.a0 > FD_MAX)
           /\ th'[t] # th[t] ) =>
            /\ th'[t].pc = "user"
            /\ th'[t].ret.err = EBADF
            /\ th'[t].nclose = 0
            /\ UNCHANGED shared]_vars

\* A close(FD_MAX + 1) has returned EBADF and the lock still does not exist.
C8_Witness ==
    \E t \in Threads :
        /\ Returned(t, "sys_close") /\ th[t].tf.v0 = EBADF /\ th[t].tf.a0 = FD_MAX + 1
        /\ fdnode_lock = NULL

\* C9: a file object placed in the table is released once, by the close
\* that succeeded: no vfs_close() is ever made on a file object that is not
\* open, a sys_close() that returned 0 made one vfs_close() call and one
\* that returned an error made none.
C9_ReleasedOnce ==
    /\ ~double_close
    /\ \A t \in Threads :
         Returned(t, "sys_close") =>
            th[t].nclose = IF th[t].ret.err = 0 THEN 1 ELSE 0

\* C10: syscall() leaves tf_v0 = err, tf_a3 = 1 after a handler that
\* returned err # 0, and tf_v0 = retval (0 for a handler that sets none),
\* tf_a3 = 0 otherwise; tf_epc is advanced by 4 once, at the end.
C10_TrapFrame ==
    \A t \in Threads :
        /\ (th[t].pc = "user" /\ th[t].ret.op \in {"sys_reboot", "sys___time", "sys___getcwd",
                                                  "sys_open", "sys_close", "unknown"}) =>
              /\ th[t].tf.v0 = IF th[t].ret.err # 0 THEN th[t].ret.err ELSE th[t].ret.val
              /\ th[t].tf.a3 = IF th[t].ret.err # 0 THEN 1 ELSE 0
              /\ th[t].tf.epc = th[t].epc0 + 4
              /\ (th[t].ret.err = 0 /\ th[t].ret.op \in {"sys_reboot", "sys___time", "sys_close"})
                    => th[t].tf.v0 = 0
        /\ th[t].pc # "user" => th[t].tf.epc = th[t].epc0

\* An open() from the highest trap address has failed with ENFILE.
C10_Witness ==
    \E t \in Threads :
        /\ Returned(t, "sys_open") /\ th[t].ret.err = ENFILE
        /\ th[t].tf.v0 = ENFILE /\ th[t].tf.a3 = 1
        /\ th[t].tf.epc = 2147483644

\* C11: dispatching a call number that has no case in the switch is one
\* step that runs no handler code: the table, the lock and the open files
\* are as before, tf_v0 = ENOSYS, tf_a3 = 1, tf_epc is 4 more than at the
\* trap, and the thread is back in user mode with the kernel running.
C11_UnknownCall ==
    [][\A t \in Threads :
         ( /\ th[t].pc = "dispatch"
           /\ th[t].callno \notin {SYS_reboot, SYS___time, SYS___getcwd, SYS_open, SYS_close}
           /\ th'[t] # th[t] ) =>
            /\ th'[t].pc = "user"
            /\ th'[t].ret.op = "unknown"
            /\ th'[t].tf.v0 = ENOSYS
            /\ th'[t].tf.a3 = 1
            /\ th'[t].tf.epc = th[t].tf.epc + 4
            /\ th[t].tf.epc = th[t].epc0
            /\ ~th'[t].touched /\ th'[t].nclose = 0 /\ th'[t].opened = NULL
            /\ panic' = "none"
            /\ UNCHANGED shared]_vars

\* An unknown call number has been dispatched while the table held an
\* entry, and came back with ENOSYS.
C11_Witness ==
    \E t \in Threads :
        /\ Returned(t, "unknown")
        /\ th[t].tf.v0 = ENOSYS /\ th[t].tf.a3 = 1
        /\ th[t].tf.epc = th[t].epc0 + 4
        /\ Len(Chain) >= 1
        /\ panic = "none"

\* C12: when vfs_getcwd() and copyout() succeed, sys___getcwd() copies out
\* min(path_len, userbuflen) bytes and returns that number: userbuflen for a
\* destination smaller than the path, path_len for a larger one; when
\* either fails, the error is returned and the return value is not written.
C12_GetcwdCount ==
    \A t \in Threads :
        Returned(t, "sys___getcwd") =>
            LET userbuflen == th[t].tf.a1
                path_len == th[t].pathlen IN
            IF th[t].ret.err = 0
            THEN /\ th[t].copied = IF path_len < userbuflen THEN path_len ELSE userbuflen
                 /\ th[t].ret.val = th[t].copied
                 /\ th[t].tf.v0 = th[t].copied
                 /\ userbuflen < path_len => th[t].ret.val = userbuflen
                 /\ userbuflen > path_len => th[t].ret.val = path_len
            ELSE /\ th[t].ret.err \in {ENOENT, EFAULT}
                 /\ ~th[t].ret.wrote
                 /\ th[t].ret.val = 0
                 /\ th[t].tf.v0 = th[t].ret.err

\* A path of two bytes went into a destination of one byte: one byte was
\* copied and 1 returned.
C12_Witness ==
    \E t \in Threads :
        /\ Returned(t, "sys___getcwd") /\ th[t].ret.err = 0
        /\ th[t].pathlen = 2 /\ th[t].tf.a1 = 1
        /\ th[t].copied = 1 /\ th[t].tf.v0 = 1

\* C13: the table lock is created once: lock_create() has succeeded at
\* most once, and fdnode_lock, once set, names the lock of that one call.
C13_LockCreatedOnce ==
    /\ nlocks <= 1
    /\ fdnode_lock # NULL => fdnode_lock = 1

\* The positions between lock_acquire(fdnode_lock) and the return of
\* lock_release(fdnode_lock): lines 126-145 of fd_allocate() and lines
\* 167-187 of fd_deallocate().
CriticalPcs == {"alloc_scan", "alloc_next", "alloc_first", "alloc_release", "full_release",
                "dealloc_find", "dealloc_unlink", "dealloc_release", "hung"}

InCriticalSection(t) == th[t].pc \in CriticalPcs

\* C14: at most one thread at a time is inside a section that reads or
\* writes first_fdnode or the fields of an entry.
C14_MutualExclusion ==
    \A t1, t2 \in Threads :
        (InCriticalSection(t1) /\ InCriticalSection(t2)) => t1 = t2

\* C15: the chain starting at first_fdnode holds at most one entry per
\* handle value, hence at most FD_MAX - FD_MIN + 1 entries.
C15_OneEntryPerHandle ==
    /\ \A i, j \in 1..Len(ChainNodes) :
          heap[ChainNodes[i]].fd = heap[ChainNodes[j]].fd => i = j
    /\ Len(ChainNodes) <= NumFds

\* Thread t is about to call a collaborator: copyinstr (line 403) or
\* vfs_getcwd and copyout (lines 354, 374) on entry to the handler,
\* vfs_open (line 416), vfs_close (lines 424 and 457).
CollaboratorCall(t) ==
    \/ th[t].pc = "dispatch" /\ th[t].callno \in {SYS_open, SYS___getcwd}
    \/ th[t].pc \in {"vfs_open", "open_fail", "close_vfs"}

\* The locks thread t holds.
LocksHeld(t) == {l \in Locks : lock_holder[l] = t}

RemoveAt(s, i) == SubSeq(s, 1, i - 1) \o SubSeq(s, i + 1, Len(s))

\* C17: a successful fd_allocate(f) puts the one entry <<h, f>> in front of
\* the chain as it was; a successful fd_deallocate(h) takes out the one
\* entry that carried h, wherever it was, and returns its file; the other
\* entries keep handle, file and order; neither calls vfs_close.
C17_Frame ==
    /\ \A t \in Threads :
         /\ (Returned(t, "fd_allocate") /\ th[t].ret.err = 0) =>
                Chain = <<<<th[t].ret.val, th[t].arg>>>> \o pre
         /\ (Returned(t, "fd_deallocate") /\ th[t].ret.err = 0) =>
                \E i \in 1..Len(pre) :
                    /\ pre[i] = <<th[t].arg, th[t].ret.val>>
                    /\ Chain = RemoveAt(pre, i)
         /\ th[t].mode = "table" => th[t].nclose = 0
    /\ ~double_close
    /\ open_vnodes = {}

\* The middle one of three entries has been taken out.
C17_Witness ==
    \E t \in Threads :
        /\ Returned(t, "fd_deallocate") /\ th[t].ret.err = 0
        /\ Len(pre) = 3 /\ pre[2][1] = th[t].arg
        /\ Chain = <<pre[1], pre[3]>>

\* C18: every table operation runs to completion and leaves the lock
\* free: a thread that is back in user mode holds no lock, no call is left
\* searching a chain without end, and no call is cut short by a halt of
\* the kernel inside the table code (the panic of line 86 on a failed
\* lock_create apart).
C18_RunsToCompletion ==
    /\ \A t \in Threads : th[t].pc = "user" => LocksHeld(t) = {}
    /\ \A t \in Threads : th[t].pc # "hung"
    /\ panic \in {"none", "lock_create"}

\* C19: while the kernel runs, a thread that is about to evaluate
\* KASSERT(lock_do_i_hold(fdnode_lock)) in fd_is_being_used(), or to call
\* lock_release(fdnode_lock), holds the lock that fdnode_lock names; the
\* assertion never fails.
C19_HolderAssertions ==
    /\ panic # "lock_do_i_hold"
    /\ panic # "lock_release"
    /\ panic = "none" =>
          \A t \in Threads :
              th[t].pc \in {"alloc_scan", "alloc_release", "full_release", "dealloc_release"} =>
                  lock_do_i_hold(t, fdnode_lock)

\* C20: entry storage is neither leaked nor used after it was freed.  The
\* chain never reaches a freed node and never runs into a cycle; a node
\* about to be freed, on the ENFILE path of fd_allocate() or at the end of
\* fd_deallocate(), is allocated (so it is freed once) and is not
\* reachable from first_fdnode; and whenever no table operation is in
\* progress the allocated nodes are exactly the entries of the chain.
C20_NodeStorage ==
    /\ Range(ChainNodes) \subseteq allocated
    /\ ~ChainCyclic
    /\ \A t \in Threads :
         /\ th[t].pc = "full_kfree" =>
                /\ th[t].new_first_fdnode \in allocated
                /\ th[t].new_first_fdnode \notin Range(ChainNodes)
         /\ th[t].pc = "dealloc_kfree" =>
                /\ th[t].fdnode_removed \in allocated
                /\ th[t].fdnode_removed \notin Range(ChainNodes)
    /\ (\A t \in Threads : th[t].pc = "user") =>
          /\ allocated = Range(ChainNodes)
          /\ Cardinality(allocated) = Len(Chain)

\* fd_allocate() has returned ENFILE on a full table and the node it had
\* obtained is free again.
C20_Witness ==
    \E t \in Threads :
        /\ Returned(t, "fd_allocate") /\ th[t].ret.err = ENFILE
        /\ Len(Chain) = NumFds
        /\ Cardinality(allocated) = NumFds
====
